---- MODULE Spec2Model ----
(***************************************************************************)
(* State-machine model of covert_sd_card_tool.py: one run of main(), from  *)
(* argument parsing to process exit.  Every external command issued        *)
(* through run_command is appended to the log cmds together with its       *)
(* outcome; the partition table on the device, the kernel's device nodes,  *)
(* the mounts and the LUKS mapping are the environment the commands act on.*)
(* Sizes are in MiB (the script's float arithmetic is modelled on          *)
(* integers; lsblk's byte count is taken as an exact multiple of 1 MiB).   *)
(* Strings the code parses are sequences of one-character strings.         *)
(***************************************************************************)
EXTENDS Integers, Sequences, FiniteSets, TLC

\* ------------------------------------------------------------------------
\* Program constants
\* ------------------------------------------------------------------------
MiBPerGB == 1024
Margin == 1024
FreshStart == 1
PersistIndex == 2
StaleIndex == 2

\* ------------------------------------------------------------------------
\* Strings as sequences of characters, with the Python string operations
\* the script uses.
\* ------------------------------------------------------------------------
Digits == <<"0", "1", "2", "3", "4", "5", "6", "7", "8", "9">>

IsDigitChar(c) == \E i \in 1..10 : Digits[i] = c

DigitVal(c) == (CHOOSE i \in 1..10 : Digits[i] = c) - 1

\* str.isdigit(): non-empty and all characters are digits
isdigit(s) == Len(s) > 0 /\ \A i \in 1..Len(s) : IsDigitChar(s[i])

RECURSIVE int(_)
int(s) == IF Len(s) = 0 THEN 0
          ELSE 10 * int(SubSeq(s, 1, Len(s) - 1)) + DigitVal(s[Len(s)])

\* f"{n}" for a non-negative integer
RECURSIVE str(_)
str(n) == IF n < 10 THEN <<Digits[n + 1]>>
          ELSE str(n \div 10) \o <<Digits[(n % 10) + 1]>>

\* s.startswith(prefix)
startswith(s, prefix) ==
    /\ Len(prefix) <= Len(s)
    /\ SubSeq(s, 1, Len(prefix)) = prefix

\* sub in s
contains(s, sub) ==
    \E i \in 1..(Len(s) - Len(sub) + 1) : SubSeq(s, i, i + Len(sub) - 1) = sub

\* s.replace(old, ''), removing the non-overlapping occurrences left to right
RECURSIVE remove(_, _)
remove(s, old) ==
    IF Len(s) = 0 \/ Len(old) = 0 THEN s
    ELSE IF startswith(s, old)
         THEN remove(SubSeq(s, Len(old) + 1, Len(s)), old)
         ELSE <<s[1]>> \o remove(SubSeq(s, 2, Len(s)), old)

\* os.path.basename(path): what follows the last "/"
RECURSIVE basename(_)
basename(path) ==
    IF Len(path) = 0 THEN path
    ELSE IF path[Len(path)] = "/" THEN <<>>
         ELSE basename(SubSeq(path, 1, Len(path) - 1)) \o <<path[Len(path)]>>

\* float(s) of a size prompt: the inputs of the model are digit strings or
\* text that float() rejects with ValueError
IsFloat(s) == isdigit(s)

float(s) == int(s)

nvme == <<"n", "v", "m", "e">>
mmcblk == <<"m", "m", "c", "b", "l", "k">>
dev == <<"/", "d", "e", "v", "/">>

\* get_partition_name testing for 'nvme' only
get_partition_name_nvme_only(drive, partition_number) ==
    IF contains(drive, nvme)
    THEN drive \o <<"p">> \o str(partition_number)
    ELSE drive \o str(partition_number)

get_partition_name(drive, partition_number) ==
    IF contains(drive, nvme) \/ contains(drive, mmcblk)
    THEN drive \o <<"p">> \o str(partition_number)
    ELSE drive \o str(partition_number)

\* ------------------------------------------------------------------------
\* The environment: devices, boot images, the kernel's names for partitions
\* ------------------------------------------------------------------------
sda == dev \o <<"s", "d", "a">>
nvme0n1 == dev \o <<"n", "v", "m", "e", "0", "n", "1">>

Extent(s, e) == [start |-> s, end |-> e]

NoTable == << >>

\* The devices a run may be pointed at: path, size in MiB, partitions found
\* on it at start
Devices ==
    { [path |-> sda, total |-> 16000, table |-> NoTable],
      [path |-> nvme0n1, total |-> 8000,
       table |-> <<Extent(1, 1000), Extent(1000, 2000), Extent(2000, 8000)>>] }

\* The partition tables a boot image carries: a hybrid ISO with one
\* partition, or with a second (EFI) partition after it
Images ==
    { <<Extent(0, 3000)>>,
      <<Extent(0, 3000), Extent(3000, 3004)>> }

\* Answers typed at the size prompts
SizeInputs ==
    { <<>>, <<"4">>, <<"5">>, <<"7">>, <<"1", "2">>, <<"2", "0">>, <<"x">> }

\* Command lines: the mode selectors and --fast of argparse
Args(a, k, d, t, f) == [all |-> a, kali |-> k, docs |-> d, tails |-> t, fast |-> f]

CommandLines ==
    { Args(FALSE, FALSE, FALSE, FALSE, FALSE),
      Args(TRUE, FALSE, FALSE, FALSE, FALSE),
      Args(TRUE, FALSE, FALSE, TRUE, FALSE),
      Args(FALSE, TRUE, FALSE, FALSE, TRUE),
      Args(FALSE, TRUE, TRUE, FALSE, FALSE),
      Args(FALSE, FALSE, TRUE, FALSE, FALSE),
      Args(FALSE, FALSE, TRUE, FALSE, TRUE),
      Args(FALSE, FALSE, FALSE, TRUE, FALSE),
      Args(FALSE, FALSE, TRUE, TRUE, FALSE) }

\* Name the kernel gives partition n of a disk: "p" is inserted when the
\* disk name ends in a digit
KernelName(base, n) ==
    IF Len(base) > 0 /\ IsDigitChar(base[Len(base)])
    THEN base \o <<"p">> \o str(n)
    ELSE base \o str(n)

\* lsblk -ln -o NAME DRIVE: the disk and the partitions the kernel knows
Listing(drive, ns) ==
    {basename(drive)} \cup {KernelName(basename(drive), n) : n \in ns}

\* os.path.exists(path) for a partition path of the drive
exists(path, drive, ns) ==
    \E n \in ns : path = dev \o KernelName(basename(drive), n)

Max(S) == CHOOSE x \in S : \A y \in S : y <= x

Min(S) == CHOOSE x \in S : \A y \in S : x <= y

\* get_last_partition_number without the removal of the "p" infix
PartitionNumbersKeepInfix(drive, listing) ==
    LET base == basename(drive)
        num(part) == remove(part, base)
    IN  {int(num(part)) : part \in {q \in listing : startswith(q, base) /\ isdigit(num(q))}}

\* partition numbers get_last_partition_number collects from a listing
PartitionNumbers(drive, listing) ==
    LET base == basename(drive)
        num(part) == IF contains(part, <<"p">>)
                     THEN remove(remove(part, base), <<"p">>)
                     ELSE remove(part, base)
    IN  {int(num(part)) : part \in {q \in listing : startswith(q, base) /\ isdigit(num(q))}}

\* ------------------------------------------------------------------------
\* State
\* ------------------------------------------------------------------------
VARIABLES
    pc,             \* position in the script
    ip,             \* index of the next command inside a command block
    args,           \* parsed command line
    CREATE_KALI, CREATE_DOCS, CREATE_TAILS, FAST_MODE,
    DRIVE,          \* selected device path (<<>> before selection)
    confirm,        \* answer to "Is this correct?", lower-cased ("" before)
    device,         \* the device the path names: total size in MiB
    table,          \* partition table on the device: number -> extent
    nodes,          \* partition numbers the kernel has device nodes for
    tableGen,       \* number of partition-table changes so far
    cmds,           \* commands issued through run_command, with outcome
    exitCode,       \* process exit status
    exitReason,     \* why the process ended ("" while running)
    caller,         \* the fix_partition_table* function in progress
    end_of_p1, total_size_mib, sizeGen,
    start_mib, end_mib,   \* extent being planned
    size_persistence,     \* answer to the persistence size prompt, "4" for blank
    size_docs,            \* answer to the documents size prompt
    uses,           \* geometry snapshots used: what, snapshot age, table age
    plan,           \* extents handed to mkpart, in order, with their role
    checked,        \* partition paths os.path.exists was asked about
    target,         \* partition path the running provisioner works on
    part_index,     \* partition number that path was built from
    last_partition, \* what get_last_partition_number returned last
    mounted,        \* mount points currently mounted
    mapperOpen,     \* /dev/mapper/kali_USB is open
    markerWritten   \* persistence.conf has been written

vars == <<pc, ip, args, CREATE_KALI, CREATE_DOCS, CREATE_TAILS, FAST_MODE,
          DRIVE, confirm, device, table, nodes, tableGen, cmds, exitCode,
          exitReason, caller, end_of_p1, total_size_mib, sizeGen, start_mib, end_mib,
          size_persistence, size_docs,
          uses, plan, checked, target, part_index, last_partition,
          mounted, mapperOpen, markerWritten>>

flagVars == <<args, CREATE_KALI, CREATE_DOCS, CREATE_TAILS, FAST_MODE>>
diskVars == <<table, nodes, tableGen>>
sizeVars == <<size_persistence, size_docs>>
planVars == <<end_of_p1, total_size_mib, sizeGen, start_mib, end_mib, sizeVars, uses, plan>>
resolveVars == <<target, part_index, last_partition>>
provVars == <<checked, resolveVars, mounted, mapperOpen, markerWritten>>

Init ==
    /\ pc = "main"
    /\ ip = 1
    /\ args \in CommandLines
    /\ CREATE_KALI = FALSE
    /\ CREATE_DOCS = FALSE
    /\ CREATE_TAILS = FALSE
    /\ FAST_MODE = FALSE
    /\ DRIVE = <<>>
    /\ confirm = ""
    /\ device \in Devices
    /\ table = device.table
    /\ nodes = DOMAIN device.table
    /\ tableGen = 0
    /\ cmds = <<>>
    /\ exitCode = 0
    /\ exitReason = ""
    /\ caller = ""
    /\ end_of_p1 = 0
    /\ total_size_mib = 0
    /\ sizeGen = 0
    /\ start_mib = 0
    /\ end_mib = 0
    /\ size_persistence = <<>>
    /\ size_docs = <<>>
    /\ uses = <<>>
    /\ plan = <<>>
    /\ checked = {}
    /\ target = <<>>
    /\ part_index = 0
    /\ last_partition = 0
    /\ mounted = {}
    /\ mapperOpen = FALSE
    /\ markerWritten = FALSE

\* ------------------------------------------------------------------------
\* run_command and sys.exit
\* ------------------------------------------------------------------------
Cmd(by, op, arg, ok) == [by |-> by, op |-> op, arg |-> arg, ok |-> ok]

\* sys.exit(code)
SysExit(code, reason) ==
    /\ pc' = "exit"
    /\ exitCode' = code
    /\ exitReason' = reason

\* an exception nothing catches: traceback, exit status 1
Uncaught(exception) ==
    /\ pc' = "exit"
    /\ exitCode' = 1
    /\ exitReason' = exception

Continue(next) ==
    /\ pc' = next
    /\ UNCHANGED <<exitCode, exitReason>>

\* run_command with the except branch returning instead of exiting
RaisesNever(ok) == FALSE

\* run_command raises SystemExit(1) exactly when the command returns
\* non-zero (check=True, CalledProcessError, sys.exit(1))
Raises(ok) == ~ok

\* run_command(command) outside any try block: the command is issued, and
\* the run goes on at next or ends
run_command(by, op, arg, ok, next) ==
    /\ cmds' = Append(cmds, Cmd(by, op, arg, ok))
    /\ IF Raises(ok) THEN SysExit(1, "command_failed") ELSE Continue(next)

\* a run of consecutive run_command calls: what reaches the log is the
\* calls up to and including the first one that raises
RECURSIVE Issued(_)
Issued(cs) ==
    IF Len(cs) = 0 THEN cs
    ELSE IF Raises(cs[1].ok) THEN <<cs[1]>>
         ELSE <<cs[1]>> \o Issued(SubSeq(cs, 2, Len(cs)))

AnyRaises(cs) == \E i \in 1..Len(cs) : Raises(cs[i].ok)

\* ------------------------------------------------------------------------
\* main: argument handling (lines 514-543)
\* ------------------------------------------------------------------------
Main ==
    /\ pc = "main"
    /\ IF ~(args.all \/ args.kali \/ args.docs \/ args.tails)
       THEN /\ SysExit(1, "usage")
            /\ UNCHANGED <<CREATE_KALI, CREATE_DOCS, CREATE_TAILS, FAST_MODE>>
       ELSE /\ FAST_MODE' = args.fast
            /\ IF args.all
               THEN /\ CREATE_DOCS' = TRUE
                    /\ CREATE_TAILS' = args.tails
                    /\ CREATE_KALI' = ~args.tails
               ELSE /\ CREATE_KALI' = args.kali
                    /\ CREATE_DOCS' = args.docs
                    /\ CREATE_TAILS' = args.tails
            /\ Continue("check_dependencies")
    /\ UNCHANGED <<ip, args, DRIVE, confirm, device, diskVars, cmds, caller, planVars, provVars>>

\* check_dependencies, then the dispatch of main (lines 545-557)
CheckDependencies ==
    /\ pc = "check_dependencies"
    /\ \E missing \in BOOLEAN, install \in BOOLEAN, ok1 \in BOOLEAN, ok2 \in BOOLEAN :
         LET cs == <<Cmd("check_dependencies", "apt update", <<>>, ok1),
                     Cmd("check_dependencies", "apt install", <<>>, ok2)>>
             next == IF CREATE_KALI \/ CREATE_TAILS \/ CREATE_DOCS
                     THEN "setup_usb" ELSE "main_else"
         IN  IF ~missing
             THEN /\ Continue(next)
                  /\ UNCHANGED cmds
             ELSE IF install
                  THEN /\ cmds' = cmds \o Issued(cs)
                       /\ IF AnyRaises(cs) THEN SysExit(1, "command_failed")
                          ELSE Continue(next)
                  ELSE /\ SysExit(1, "declined_install")
                       /\ UNCHANGED cmds
    /\ UNCHANGED <<ip, flagVars, DRIVE, confirm, device, diskVars, caller, planVars, provVars>>

\* ------------------------------------------------------------------------
\* setup_usb (lines 115-166) and prepare_drive (lines 85-113)
\* ------------------------------------------------------------------------
\* what can be typed at a y/n prompt whose default is "y"
Answers == {"", "y", "Y", "n"}

\* input(...) or "y", then .lower()
LowerOrYes(typed) ==
    IF typed \in {"", "Y"} THEN "y" ELSE typed

\* every answer lets the run go on
AcceptsAny(answer) == TRUE

\* the test of line 122, negated: the selection is taken
Accepts(answer) == answer = "y"

SelectDrive ==
    /\ pc = "setup_usb"
    /\ DRIVE' = device.path
    /\ \E typed \in Answers :
         /\ confirm' = LowerOrYes(typed)
         /\ IF ~Accepts(LowerOrYes(typed))
            THEN SysExit(1, "declined_drive")
            ELSE Continue("prepare_drive")
    /\ UNCHANGED <<ip, flagVars, device, diskVars, cmds, caller, planVars, provVars>>

\* what prepare_drive finds: a mounted partition, active swap, processes
DriveUses ==
    { [mounted |-> FALSE, swap |-> FALSE, busy |-> FALSE],
      [mounted |-> TRUE, swap |-> TRUE, busy |-> TRUE] }

prepare_drive ==
    /\ pc = "prepare_drive"
    /\ \E use \in DriveUses, kill \in BOOLEAN,
          okU \in BOOLEAN, okS \in BOOLEAN, okK \in BOOLEAN :
         LET release == (IF use.mounted
                         THEN <<Cmd("prepare_drive", "umount -l", DRIVE, okU)>>
                         ELSE <<>>)
                        \o (IF use.swap
                            THEN <<Cmd("prepare_drive", "swapoff", DRIVE, okS)>>
                            ELSE <<>>)
             fuser == <<Cmd("prepare_drive", "fuser -k", DRIVE, okK)>>
         IN  IF AnyRaises(release)
             THEN /\ cmds' = cmds \o Issued(release)
                  /\ SysExit(1, "command_failed")
             ELSE IF ~use.busy
                  THEN /\ cmds' = cmds \o release
                       /\ Continue("wipe_prompt")
                  ELSE IF kill
                       THEN /\ cmds' = cmds \o release \o fuser
                            /\ IF AnyRaises(fuser) THEN SysExit(1, "command_failed")
                               ELSE Continue("wipe_prompt")
                       ELSE /\ cmds' = cmds \o release
                            /\ SysExit(1, "declined_kill")
    /\ UNCHANGED <<ip, flagVars, DRIVE, confirm, device, diskVars, caller, planVars, provVars>>

WipePrompt ==
    /\ pc = "wipe_prompt"
    /\ \E wipe \in BOOLEAN :
         IF (CREATE_KALI \/ CREATE_TAILS \/ CREATE_DOCS) /\ wipe
         THEN Continue("wipe")
         ELSE Continue("select_image")
    /\ ip' = 1
    /\ UNCHANGED <<flagVars, DRIVE, confirm, device, diskVars, cmds, caller, planVars, provVars>>

WipeCmds == <<"wipefs --all", "sgdisk --zap-all", "dd if=/dev/zero">>

\* a change of the partition table on the device: the kernel re-reads the
\* table at once, or keeps the partitions it knew
SetTable(t) ==
    /\ table' = t
    /\ tableGen' = tableGen + 1
    /\ nodes' \in {nodes, DOMAIN t}

WipeStep ==
    /\ pc = "wipe"
    /\ \E ok \in BOOLEAN :
         /\ run_command("setup_usb", WipeCmds[ip], DRIVE, ok,
                        IF ip = Len(WipeCmds) THEN "select_image" ELSE "wipe")
         /\ IF ok THEN SetTable(NoTable) ELSE UNCHANGED diskVars
    /\ ip' = IF ip < Len(WipeCmds) THEN ip + 1 ELSE 1
    /\ UNCHANGED <<flagVars, DRIVE, confirm, device, caller, planVars, provVars>>

SelectImage ==
    /\ pc = "select_image"
    /\ IF CREATE_KALI \/ CREATE_TAILS
       THEN /\ \E isfile \in BOOLEAN :
                 IF ~isfile THEN SysExit(1, "iso_missing") ELSE Continue("write_image")
            /\ UNCHANGED caller
       ELSE IF CREATE_DOCS
            THEN /\ Continue("docs_only_mklabel")
                 /\ caller' = "fix_partition_table_docs_only"
            ELSE /\ SysExit(1, "no_option")
                 /\ UNCHANGED caller
    /\ UNCHANGED <<ip, flagVars, DRIVE, confirm, device, diskVars, cmds, planVars, provVars>>

WriteImage ==
    /\ pc = "write_image"
    /\ \E ok \in BOOLEAN, img \in Images :
         /\ run_command("setup_usb", "dd if=ISO", DRIVE, ok,
                        IF CREATE_KALI THEN "fpt_rm2" ELSE "tails_mklabel")
         /\ IF ok THEN SetTable(img) ELSE UNCHANGED diskVars
    /\ caller' = IF CREATE_KALI THEN "fix_partition_table"
                 ELSE "fix_partition_table_tails"
    /\ UNCHANGED <<ip, flagVars, DRIVE, confirm, device, planVars, provVars>>

\* ------------------------------------------------------------------------
\* Partition table operations and geometry reads
\* ------------------------------------------------------------------------
\* parted rm n
Rm(t, n) == [i \in (DOMAIN t) \ {n} |-> t[i]]

\* parted mkpart: the new partition takes the lowest free number
Mkpart(t, ext) ==
    LET n == Min({i \in 1..(Cardinality(DOMAIN t) + 1) : i \notin DOMAIN t})
    IN  [i \in (DOMAIN t) \cup {n} |-> IF i = n THEN ext ELSE t[i]]

\* lsblk -b -n -o SIZE DRIVE prints one row for the disk and one for each
\* partition the kernel knows; int() of the stripped output succeeds only
\* on a single row (lines 178-179, 241-242)
SizeRows(ns) == 1 + Cardinality(ns)

SizeParses(ns) == SizeRows(ns) = 1

\* rows of "parted print" whose text starts with "1" (lines 228-233)
RowsStartingWith1(t) == {n \in DOMAIN t : startswith(str(n), <<"1">>)}

Use(what) == [what |-> what, snap |-> sizeGen, gen |-> tableGen]

\* the size taken as decimal gigabytes
ExplicitEndDecimal(start, gb) == start + gb * 1000

\* end = start + size_gb * 1024 (lines 188, 254, 270)
ExplicitEnd(start, gb) == start + gb * MiBPerGB

\* end = total_size_mib - 1024 (lines 196, 278)
RemainingEnd(total) == total - Margin

\* the test applied to the size of the partition instead of its end
PersistenceSizeTooBig(end, total) == end - end_of_p1 > total

\* the feasibility test of the persistence partition (line 256)
PersistenceTooBig(end, total) == end > total

\* the documents test without the margin
DocumentsTooBigNoMargin(end, total) == end > total

\* the feasibility test of a documents partition of explicit size
\* (lines 189, 271)
DocumentsTooBig(end, total) == end > total - Margin

\* partprobe, udevadm settle, sleep: the kernel's nodes follow the table,
\* or have not caught up yet
Reprobe(ok) ==
    /\ IF ok THEN nodes' \in {DOMAIN table, nodes} ELSE nodes' = nodes
    /\ UNCHANGED <<table, tableGen>>

\* the refresh without the re-probe
RefreshCmdsSettleOnly == <<"udevadm settle">>

RefreshCmds == <<"partprobe", "udevadm settle">>

\* ------------------------------------------------------------------------
\* fix_partition_table (lines 215-296)
\* ------------------------------------------------------------------------
\* try: run_command(rm 2) except SystemExit: the failure is logged and the
\* run goes on
FptRm2 ==
    /\ pc = "fpt_rm2"
    /\ \E ok \in BOOLEAN :
         /\ cmds' = Append(cmds, Cmd("fix_partition_table", "rm", <<StaleIndex>>, ok))
         /\ IF ok THEN SetTable(Rm(table, StaleIndex)) ELSE UNCHANGED diskVars
    /\ Continue("fpt_geometry")
    /\ UNCHANGED <<ip, flagVars, DRIVE, confirm, device, caller, planVars, provVars>>

FptGeometry ==
    /\ pc = "fpt_geometry"
    /\ IF RowsStartingWith1(table) = {}
       THEN /\ SysExit(1, "no_partition_1")
            /\ UNCHANGED <<end_of_p1, total_size_mib, sizeGen>>
       ELSE IF ~SizeParses(nodes)
            THEN /\ Uncaught("ValueError")
                 /\ end_of_p1' = table[Min(RowsStartingWith1(table))].end
                 /\ UNCHANGED <<total_size_mib, sizeGen>>
            ELSE /\ end_of_p1' = table[Min(RowsStartingWith1(table))].end
                 /\ total_size_mib' = device.total
                 /\ sizeGen' = tableGen
                 /\ Continue("fpt_persistence")
    /\ UNCHANGED <<ip, flagVars, DRIVE, confirm, device, diskVars, cmds, caller,
                   start_mib, end_mib, sizeVars, uses, plan, provVars>>

FptPersistence ==
    /\ pc = "fpt_persistence"
    /\ \E typed \in SizeInputs :
         LET answer == IF typed = <<>> THEN <<"4">> ELSE typed
             start == end_of_p1
             end == ExplicitEnd(start, float(answer))
         IN  /\ size_persistence' = answer
             /\ IF ~IsFloat(answer)
                THEN /\ SysExit(1, "invalid_size")
                     /\ UNCHANGED <<start_mib, end_mib, uses>>
                ELSE IF PersistenceTooBig(end, total_size_mib)
                     THEN /\ SysExit(1, "infeasible")
                          /\ UNCHANGED <<start_mib, end_mib, uses>>
                     ELSE /\ start_mib' = start
                          /\ end_mib' = end
                          /\ uses' = Append(uses, Use("persistence"))
                          /\ Continue("mkpart_persistence")
    /\ UNCHANGED <<ip, flagVars, DRIVE, confirm, device, diskVars, cmds, caller,
                   end_of_p1, total_size_mib, sizeGen, size_docs, plan, provVars>>

\* run_command(parted mkpart primary start end) for one role
IssueMkpart(role, start, end, next) ==
    /\ \E ok \in BOOLEAN :
         /\ run_command(caller, "mkpart", <<start, end>>, ok, next)
         /\ IF ok THEN SetTable(Mkpart(table, Extent(start, end)))
            ELSE UNCHANGED diskVars
    /\ plan' = Append(plan, [role |-> role, start |-> start, end |-> end])
    /\ UNCHANGED <<ip, flagVars, DRIVE, confirm, device, caller, end_of_p1, total_size_mib,
                   sizeGen, start_mib, end_mib, sizeVars, uses, provVars>>

MkpartPersistence ==
    /\ pc = "mkpart_persistence"
    /\ IssueMkpart("persistence", start_mib, end_mib, "documents_size")

\* the documents size prompt of fix_partition_table (lines 265-278) and of
\* fix_partition_table_docs_only (lines 183-196)
DocumentsSize ==
    /\ pc = "documents_size"
    /\ \E typed \in SizeInputs :
         LET start == IF caller = "fix_partition_table" THEN end_mib ELSE FreshStart
             end == IF typed = <<>> THEN RemainingEnd(total_size_mib)
                    ELSE ExplicitEnd(start, float(typed))
         IN  /\ size_docs' = typed
             /\ IF typed # <<>> /\ ~IsFloat(typed)
                THEN /\ SysExit(1, "invalid_size")
                     /\ UNCHANGED <<start_mib, end_mib, uses>>
                ELSE IF typed # <<>> /\ DocumentsTooBig(end, total_size_mib)
                     THEN /\ SysExit(1, "infeasible")
                          /\ UNCHANGED <<start_mib, end_mib, uses>>
                     ELSE /\ start_mib' = start
                          /\ end_mib' = end
                          /\ uses' = Append(uses, Use("documents"))
                          /\ Continue("mkpart_documents")
    /\ UNCHANGED <<ip, flagVars, DRIVE, confirm, device, diskVars, cmds, caller,
                   end_of_p1, total_size_mib, sizeGen, size_persistence, plan, provVars>>

MkpartDocuments ==
    /\ pc = "mkpart_documents"
    /\ IssueMkpart("documents", start_mib, end_mib, "tools_start")

\* start_unencrypted_mib = end_docs_mib (lines 203, 284)
ToolsStart ==
    /\ pc = "tools_start"
    /\ start_mib' = end_mib
    /\ end_mib' = device.total
    /\ uses' = Append(uses, Use("tools"))
    /\ Continue("mkpart_tools")
    /\ UNCHANGED <<ip, flagVars, DRIVE, confirm, device, diskVars, cmds, caller,
                   end_of_p1, total_size_mib, sizeGen, sizeVars, plan, provVars>>

\* mkpart primary <start>MiB 100% (lines 204, 285, 308)
MkpartTools ==
    /\ pc = "mkpart_tools"
    /\ IssueMkpart("tools", start_mib, end_mib, "refresh")

\* partprobe; udevadm settle; sleep before the provisioners
\* (lines 208-210, 289-291, 312-314)
Refresh ==
    /\ pc = "refresh"
    /\ \E ok \in BOOLEAN :
         /\ run_command(caller, RefreshCmds[ip], DRIVE, ok,
                        IF ip < Len(RefreshCmds) THEN "refresh"
                        ELSE IF caller = "fix_partition_table"
                             THEN "setup_kali_partition"
                             ELSE "setup_unencrypted_partition")
         /\ IF ip = 1 THEN Reprobe(ok) ELSE UNCHANGED diskVars
    /\ ip' = IF ip < Len(RefreshCmds) THEN ip + 1 ELSE 1
    /\ UNCHANGED <<flagVars, DRIVE, confirm, device, caller, planVars, provVars>>

\* ------------------------------------------------------------------------
\* fix_partition_table_docs_only (lines 168-213) and
\* fix_partition_table_tails (lines 298-316)
\* ------------------------------------------------------------------------
Mklabel ==
    /\ pc \in {"docs_only_mklabel", "tails_mklabel"}
    /\ \E ok \in BOOLEAN :
         /\ run_command(caller, "mklabel gpt", DRIVE, ok, "relabel_refresh")
         /\ IF ok THEN SetTable(NoTable) ELSE UNCHANGED diskVars
    /\ ip' = 1
    /\ UNCHANGED <<flagVars, DRIVE, confirm, device, caller, planVars, provVars>>

\* partprobe; udevadm settle; sleep after the relabel (lines 173-175, 303-305)
RelabelRefresh ==
    /\ pc = "relabel_refresh"
    /\ \E ok \in BOOLEAN :
         /\ run_command(caller, RefreshCmds[ip], DRIVE, ok,
                        IF ip < Len(RefreshCmds) THEN "relabel_refresh"
                        ELSE IF caller = "fix_partition_table_tails"
                             THEN "tails_extent"
                             ELSE "docs_only_geometry")
         /\ IF ip = 1 THEN Reprobe(ok) ELSE UNCHANGED diskVars
    /\ ip' = IF ip < Len(RefreshCmds) THEN ip + 1 ELSE 1
    /\ UNCHANGED <<flagVars, DRIVE, confirm, device, caller, planVars, provVars>>

\* lsblk -b -n -o SIZE (lines 178-180)
DocsOnlyGeometry ==
    /\ pc = "docs_only_geometry"
    /\ IF ~SizeParses(nodes)
       THEN /\ Uncaught("ValueError")
            /\ UNCHANGED <<total_size_mib, sizeGen>>
       ELSE /\ total_size_mib' = device.total
            /\ sizeGen' = tableGen
            /\ Continue("documents_size")
    /\ UNCHANGED <<ip, flagVars, DRIVE, confirm, device, diskVars, cmds, caller,
                   end_of_p1, start_mib, end_mib, sizeVars, uses, plan, provVars>>

\* mkpart primary 1MiB 100% (line 308)
TailsExtent ==
    /\ pc = "tails_extent"
    /\ start_mib' = FreshStart
    /\ end_mib' = device.total
    /\ Continue("mkpart_tools")
    /\ UNCHANGED <<ip, flagVars, DRIVE, confirm, device, diskVars, cmds, caller,
                   end_of_p1, total_size_mib, sizeGen, sizeVars, uses, plan, provVars>>

\* ------------------------------------------------------------------------
\* Provisioners
\* ------------------------------------------------------------------------
\* setup_kali_partition with mkfs issued before luksOpen
KaliCmdsReordered ==
    <<"wipefs --all",
      IF FAST_MODE THEN "cryptsetup luksFormat --type luks1 aes-cbc-essiv:sha256"
      ELSE "cryptsetup luksFormat aes-xts-plain64",
      IF FAST_MODE THEN "mkfs.ext3 -L persistence" ELSE "mkfs.ext4 -L persistence",
      "cryptsetup luksOpen",
      "mkdir -p /mnt/kali_USB",
      "mount /mnt/kali_USB",
      "tee /mnt/kali_USB/persistence.conf",
      "umount /mnt/kali_USB",
      "cryptsetup luksClose">>

\* the commands of setup_kali_partition in program order (lines 322-355)
KaliCmds ==
    <<"wipefs --all",
      IF FAST_MODE THEN "cryptsetup luksFormat --type luks1 aes-cbc-essiv:sha256"
      ELSE "cryptsetup luksFormat aes-xts-plain64",
      "cryptsetup luksOpen",
      IF FAST_MODE THEN "mkfs.ext3 -L persistence" ELSE "mkfs.ext4 -L persistence",
      "mkdir -p /mnt/kali_USB",
      "mount /mnt/kali_USB",
      "tee /mnt/kali_USB/persistence.conf",
      "umount /mnt/kali_USB",
      "cryptsetup luksClose">>

\* the commands of setup_docs_partition after its checks (lines 368-390)
DocsCmds ==
    <<"wipefs --all",
      IF FAST_MODE THEN "veracrypt --create AES SHA-256 --quick"
      ELSE "veracrypt --create AES-Twofish-Serpent whirlpool">>

\* the commands of setup_unencrypted_partition after its checks
\* (lines 403-476)
ToolsCmds ==
    <<"mkfs.vfat -n TOOLS",
      "mkdir -p /mnt/unencrypted",
      "mount /mnt/unencrypted",
      "cp README.txt",
      "rm /tmp/README.txt",
      "cp mount_encrypted_partitions.sh",
      "chmod +x mount_encrypted_partitions.sh",
      "rm /tmp/mount_encrypted_partitions.sh",
      "cp cleanup_encrypted_partitions.sh",
      "chmod +x cleanup_encrypted_partitions.sh",
      "rm /tmp/cleanup_encrypted_partitions.sh",
      "umount /mnt/unencrypted">>

\* commands whose argument is the partition path
PathOps ==
    {"wipefs --all", "cryptsetup luksFormat --type luks1 aes-cbc-essiv:sha256",
     "cryptsetup luksFormat aes-xts-plain64", "cryptsetup luksOpen",
     "veracrypt --create AES SHA-256 --quick",
     "veracrypt --create AES-Twofish-Serpent whirlpool",
     "mkfs.vfat -n TOOLS", "mount /mnt/unencrypted"}

\* what a command that returned zero did to mounts, mapping and marker
Effects(op, ok) ==
    /\ mounted' = IF ~ok THEN mounted
                  ELSE IF op = "mount /mnt/kali_USB" THEN mounted \cup {"/mnt/kali_USB"}
                  ELSE IF op = "umount /mnt/kali_USB" THEN mounted \ {"/mnt/kali_USB"}
                  ELSE IF op = "mount /mnt/unencrypted" THEN mounted \cup {"/mnt/unencrypted"}
                  ELSE IF op = "umount /mnt/unencrypted" THEN mounted \ {"/mnt/unencrypted"}
                  ELSE mounted
    /\ mapperOpen' = IF ~ok THEN mapperOpen
                     ELSE IF op = "cryptsetup luksOpen" THEN TRUE
                     ELSE IF op = "cryptsetup luksClose" THEN FALSE
                     ELSE mapperOpen
    /\ markerWritten' = (markerWritten
                         \/ (ok /\ op = "tee /mnt/kali_USB/persistence.conf"))

\* one run_command of a provisioner's command list
ProvisionStep(by, list, next) ==
    /\ \E ok \in BOOLEAN :
         /\ run_command(by, list[ip], IF list[ip] \in PathOps THEN target ELSE <<>>,
                        ok, IF ip < Len(list) THEN pc ELSE next)
         /\ Effects(list[ip], ok)
    /\ ip' = IF ip < Len(list) THEN ip + 1 ELSE 1
    /\ UNCHANGED <<flagVars, DRIVE, confirm, device, diskVars, caller, planVars, checked,
                   resolveVars>>

\* PERSIST_PART = get_partition_name(DRIVE, 2) (line 320)
setup_kali_partition ==
    /\ pc = "setup_kali_partition"
    /\ target' = get_partition_name(DRIVE, PersistIndex)
    /\ part_index' = PersistIndex
    /\ ip' = 1
    /\ Continue("kali_commands")
    /\ UNCHANGED <<flagVars, DRIVE, confirm, device, diskVars, cmds, caller, planVars,
                   checked, last_partition, mounted, mapperOpen, markerWritten>>

KaliStep ==
    /\ pc = "kali_commands"
    /\ ProvisionStep("setup_kali_partition", KaliCmds,
                     IF CREATE_DOCS THEN "setup_docs_partition"
                     ELSE "setup_unencrypted_partition")

\* get_last_partition_number (lines 479-500): the listing is read afresh
get_last_partition_number == PartitionNumbers(DRIVE, Listing(DRIVE, nodes))

\* the head of setup_docs_partition and of setup_unencrypted_partition:
\* resolve the path at the given distance below the last partition, then
\* os.path.exists (lines 361-366, 395-400)
Resolve(back, next) ==
    LET numbers == get_last_partition_number
        path == get_partition_name(DRIVE, Max(numbers) - back)
    IN  IF numbers = {}
        THEN /\ SysExit(1, "no_partitions")
             /\ UNCHANGED <<resolveVars, checked>>
        ELSE /\ last_partition' = Max(numbers)
             /\ part_index' = Max(numbers) - back
             /\ target' = path
             /\ checked' = checked \cup {path}
             /\ IF exists(path, DRIVE, nodes) THEN Continue(next)
                ELSE SysExit(1, "partition_missing")

setup_docs_partition ==
    /\ pc = "setup_docs_partition"
    /\ Resolve(1, "docs_commands")
    /\ ip' = 1
    /\ UNCHANGED <<flagVars, DRIVE, confirm, device, diskVars, cmds, caller, planVars,
                   mounted, mapperOpen, markerWritten>>

DocsStep ==
    /\ pc = "docs_commands"
    /\ ProvisionStep("setup_docs_partition", DocsCmds,
                     IF caller = "fix_partition_table"
                     THEN "setup_unencrypted_partition" ELSE "complete")

setup_unencrypted_partition ==
    /\ pc = "setup_unencrypted_partition"
    /\ Resolve(0, "tools_commands")
    /\ ip' = 1
    /\ UNCHANGED <<flagVars, DRIVE, confirm, device, diskVars, cmds, caller, planVars,
                   mounted, mapperOpen, markerWritten>>

ToolsStep ==
    /\ pc = "tools_commands"
    /\ ProvisionStep("setup_unencrypted_partition", ToolsCmds,
                     IF caller = "fix_partition_table_docs_only"
                     THEN "setup_docs_partition" ELSE "complete")

\* log("Partition setup complete.") and the end of main (line 559)
Complete ==
    /\ pc = "complete"
    /\ pc' = "exit"
    /\ exitReason' = "complete"
    /\ UNCHANGED <<ip, flagVars, DRIVE, confirm, device, diskVars, cmds, exitCode, caller,
                   planVars, provVars>>

Next ==
    \/ Main
    \/ CheckDependencies
    \/ SelectDrive
    \/ prepare_drive
    \/ WipePrompt
    \/ WipeStep
    \/ SelectImage
    \/ WriteImage
    \/ FptRm2
    \/ FptGeometry
    \/ FptPersistence
    \/ MkpartPersistence
    \/ DocumentsSize
    \/ MkpartDocuments
    \/ ToolsStart
    \/ MkpartTools
    \/ Refresh
    \/ Mklabel
    \/ RelabelRefresh
    \/ DocsOnlyGeometry
    \/ TailsExtent
    \/ setup_kali_partition
    \/ KaliStep
    \/ setup_docs_partition
    \/ DocsStep
    \/ setup_unencrypted_partition
    \/ ToolsStep
    \/ Complete

Spec == Init /\ [][Next]_vars

\* ------------------------------------------------------------------------
\* The addressing functions on their own: get_partition_name and
\* get_last_partition_number applied, through the three provisioner heads,
\* to any of these drives with any set of partitions listed
\* ------------------------------------------------------------------------
MaxPart == 4

sdp == dev \o <<"s", "d", "p">>
mmcblk0 == dev \o <<"m", "m", "c", "b", "l", "k", "0">>
loop0 == dev \o <<"l", "o", "o", "p", "0">>

ResolverDrives == {sda, sdp, nvme0n1, mmcblk0, loop0}

ListedPartitions == SUBSET ((1..MaxPart) \cup {10})

InitResolver ==
    /\ pc \in {"setup_kali_partition", "setup_docs_partition",
               "setup_unencrypted_partition"}
    /\ ip = 1
    /\ args = Args(FALSE, TRUE, TRUE, FALSE, FALSE)
    /\ CREATE_KALI = TRUE
    /\ CREATE_DOCS = TRUE
    /\ CREATE_TAILS = FALSE
    /\ FAST_MODE = FALSE
    /\ DRIVE \in ResolverDrives
    /\ confirm = "y"
    /\ device = [path |-> DRIVE, total |-> 16000, table |-> NoTable]
    /\ table = NoTable
    /\ nodes \in ListedPartitions
    /\ tableGen = 0
    /\ cmds = <<>>
    /\ exitCode = 0
    /\ exitReason = ""
    /\ caller = "fix_partition_table"
    /\ end_of_p1 = 0
    /\ total_size_mib = 0
    /\ sizeGen = 0
    /\ start_mib = 0
    /\ end_mib = 0
    /\ size_persistence = <<>>
    /\ size_docs = <<>>
    /\ uses = <<>>
    /\ plan = <<>>
    /\ checked = {}
    /\ target = <<>>
    /\ part_index = 0
    /\ last_partition = 0
    /\ mounted = {}
    /\ mapperOpen = FALSE
    /\ markerWritten = FALSE

NextResolver ==
    \/ setup_kali_partition
    \/ setup_docs_partition
    \/ setup_unencrypted_partition

ResolverSpec == InitResolver /\ [][NextResolver]_vars

\* ------------------------------------------------------------------------
\* Properties
\* ------------------------------------------------------------------------
\* commands that change what is on the device
MutationOps ==
    {"wipefs --all", "sgdisk --zap-all", "dd if=/dev/zero", "dd if=ISO",
     "rm", "mklabel gpt", "mkpart"}

NoMutationIssued == \A i \in 1..Len(cmds) : cmds[i].op \notin MutationOps

Exited == pc = "exit"

Provisioners ==
    {"setup_kali_partition", "setup_docs_partition", "setup_unencrypted_partition"}

\* C1: the extents handed to mkpart by fix_partition_table and
\* fix_partition_table_docs_only each have start < end, each starts at or
\* after the end of the one before, and the last ends within the device.
C1_ExtentsIncreasing ==
    caller \in {"fix_partition_table", "fix_partition_table_docs_only"} =>
        /\ \A i \in 1..Len(plan) : plan[i].start < plan[i].end
        /\ \A i \in 2..Len(plan) : plan[i].start >= plan[i - 1].end
        /\ Len(plan) > 0 => plan[Len(plan)].end <= device.total

\* C2: when the run ends on a feasibility error (a requested size does not
\* fit, the 1024 MiB margin included), no command changing the device has
\* been issued.
C2_InfeasibleBeforeMutation ==
    (Exited /\ exitReason = "infeasible") => NoMutationIssued

\* the deletion of stale partition 2 in fix_partition_table
IsStaleDelete(c) == c.by = "fix_partition_table" /\ c.op = "rm"

AbortedAt(i) ==
    /\ i = Len(cmds)
    /\ Exited
    /\ exitCode = 1
    /\ exitReason = "command_failed"

\* C3 as claimed: every command that returns non-zero is the last command of
\* the run and the run has ended with an error, the deletion of stale
\* partition 2 included.
C3_EveryFailureAborts ==
    \A i \in 1..Len(cmds) : ~cmds[i].ok => AbortedAt(i)

\* C3 as amended: every command that returns non-zero is the last command of
\* the run and the run has ended with an error, except the deletion of
\* stale partition 2, whose failure never ends the run.
C3_FailureAbortsExceptStaleDelete ==
    \A i \in 1..Len(cmds) :
        ~cmds[i].ok =>
            IF IsStaleDelete(cmds[i])
            THEN ~AbortedAt(i)
            ELSE AbortedAt(i)

\* a run that went on after a failed deletion of partition 2 and was then
\* ended by another failing command
C3_Witness ==
    /\ Len(cmds) > 1
    /\ \E i \in 1..(Len(cmds) - 1) : IsStaleDelete(cmds[i]) /\ ~cmds[i].ok
    /\ ~cmds[Len(cmds)].ok
    /\ ~IsStaleDelete(cmds[Len(cmds)])
    /\ AbortedAt(Len(cmds))

\* C4: whenever the run has ended, /mnt/unencrypted is not mounted.
C4_ToolsUnmountedAtExit ==
    Exited => "/mnt/unencrypted" \notin mounted

\* the phase of the block-level lifecycle a command belongs to
KaliPhase(op) ==
    IF op = "wipefs --all" THEN "wipe"
    ELSE IF op \in {"cryptsetup luksFormat --type luks1 aes-cbc-essiv:sha256",
                    "cryptsetup luksFormat aes-xts-plain64"} THEN "format"
    ELSE IF op = "cryptsetup luksOpen" THEN "activate"
    ELSE IF op \in {"mkfs.ext3 -L persistence", "mkfs.ext4 -L persistence"} THEN "mkfs"
    ELSE IF op = "mkdir -p /mnt/kali_USB" THEN "mkdir"
    ELSE IF op = "mount /mnt/kali_USB" THEN "mount"
    ELSE IF op = "tee /mnt/kali_USB/persistence.conf" THEN "marker"
    ELSE IF op = "umount /mnt/kali_USB" THEN "umount"
    ELSE IF op = "cryptsetup luksClose" THEN "deactivate"
    ELSE "other"

PhaseOrder ==
    <<"wipe", "format", "activate", "mkfs", "mkdir", "mount", "marker", "umount",
      "deactivate">>

IssuedBy(f) == SelectSeq(cmds, LAMBDA c : c.by = f)

KaliIssued == IssuedBy("setup_kali_partition")

KaliSucceeded ==
    /\ Len(KaliIssued) = Len(PhaseOrder)
    /\ \A i \in 1..Len(KaliIssued) : KaliIssued[i].ok

\* C5: the commands setup_kali_partition has issued are a prefix of wipe,
\* format, activate, mkfs, mkdir, mount, marker, umount, deactivate; a
\* failing one is the last command of the run, which has ended with an
\* error; when all have succeeded the marker is written, /mnt/kali_USB is
\* unmounted and the mapping is closed; and a later provisioner runs only
\* after all of them have succeeded.
C5_KaliLifecycleAtomic ==
    /\ Len(KaliIssued) <= Len(PhaseOrder)
    /\ \A i \in 1..Len(KaliIssued) : KaliPhase(KaliIssued[i].op) = PhaseOrder[i]
    /\ \A i \in 1..Len(cmds) :
         (cmds[i].by = "setup_kali_partition" /\ ~cmds[i].ok) => AbortedAt(i)
    /\ KaliSucceeded =>
         /\ markerWritten
         /\ "/mnt/kali_USB" \notin mounted
         /\ ~mapperOpen
    /\ (/\ caller = "fix_partition_table"
        /\ \/ pc \in {"setup_docs_partition", "docs_commands",
                      "setup_unencrypted_partition", "tools_commands", "complete"}
           \/ exitReason = "complete"
           \/ \E i \in 1..Len(cmds) :
                cmds[i].by \in {"setup_docs_partition", "setup_unencrypted_partition"})
       => KaliSucceeded

\* a completed run in which the whole lifecycle succeeded
C5_Witness ==
    /\ Exited
    /\ exitReason = "complete"
    /\ KaliSucceeded
    /\ markerWritten

\* C6: every command a provisioner issues against a partition path is
\* issued after os.path.exists was asked about that path.
C6_PathCheckedBeforeUse ==
    \A i \in 1..Len(cmds) :
        (cmds[i].by \in Provisioners /\ cmds[i].op \in PathOps)
            => cmds[i].arg \in checked

\* C7: when the run ends on an input validation error (a size that is not a
\* number, a boot image path that names no file), no command changing the
\* device has been issued.
C7_InvalidInputBeforeMutation ==
    (Exited /\ exitReason \in {"invalid_size", "iso_missing"}) => NoMutationIssued

\* C8: every extent is computed from a device size read after the most
\* recent change of the partition table.
C8_GeometryFresh ==
    \A i \in 1..Len(uses) : uses[i].snap = uses[i].gen

Rank(f) ==
    IF f = "setup_kali_partition" THEN 1
    ELSE IF f = "setup_docs_partition" THEN 2
    ELSE 3

\* C9: in every mode the provisioners' commands appear in the order
\* block-level persistence, container documents, plaintext tools.
C9_OneProvisionerOrder ==
    \A i \in 1..Len(cmds) : \A j \in i..Len(cmds) :
        (cmds[i].by \in Provisioners /\ cmds[j].by \in Provisioners)
            => Rank(cmds[i].by) <= Rank(cmds[j].by)

\* C10: a run the user declined (the drive selection, or killing the
\* processes using the drive) ends with the exit status of a clean
\* termination, not with the status failures end with.
C10_DeclineExitsCleanly ==
    (Exited /\ exitReason \in {"declined_drive", "declined_kill"}) => exitCode = 0


\* the size typed at a prompt, in GB
TypedGB(answer) == int(answer)

PlannedBy(f) == IF caller = f THEN plan ELSE <<>>

\* C11: in fix_partition_table, with boot-image end B, total T, persistence
\* size P GB and documents size D GB or blank, the extents handed to mkpart
\* are persistence = [B, B + 1024 P], documents = [B + 1024 P, T - 1024] for
\* a blank size and [B + 1024 P, B + 1024 P + 1024 D] otherwise, tools =
\* [documents end, T]; T = 16000, B = 3000, P = 4, blank gives [3000, 7096],
\* [7096, 14976], [14976, 16000].
C11_PlannedExtents ==
    LET B == end_of_p1
        T == device.total
        P == TypedGB(size_persistence)
        fpt == PlannedBy("fix_partition_table")
    IN  /\ Len(fpt) >= 1 =>
             fpt[1] = [role |-> "persistence", start |-> B, end |-> B + 1024 * P]
        /\ Len(fpt) >= 2 =>
             fpt[2] = [role |-> "documents", start |-> B + 1024 * P,
                       end |-> IF size_docs = <<>> THEN T - 1024
                               ELSE B + 1024 * P + 1024 * TypedGB(size_docs)]
        /\ Len(fpt) >= 3 =>
             fpt[3] = [role |-> "tools", start |-> fpt[2].end, end |-> T]
        /\ Len(fpt) <= 3
        /\ (Len(fpt) = 3 /\ T = 16000 /\ B = 3000 /\ P = 4 /\ size_docs = <<>>) =>
             /\ <<fpt[1].start, fpt[1].end>> = <<3000, 7096>>
             /\ <<fpt[2].start, fpt[2].end>> = <<7096, 14976>>
             /\ <<fpt[3].start, fpt[3].end>> = <<14976, 16000>>

\* the three extents of the example have been handed to mkpart
C11_Witness ==
    /\ caller = "fix_partition_table"
    /\ device.total = 16000
    /\ end_of_p1 = 3000
    /\ size_persistence = <<"4">>
    /\ size_docs = <<>>
    /\ Len(plan) = 3

\* C12: in fix_partition_table, once a persistence size P with
\* B + 1024 P > T has been typed, the run has ended with an error and no
\* mkpart has been issued.
C12_OversizedPersistenceFails ==
    (/\ caller = "fix_partition_table"
     /\ IsFloat(size_persistence)
     /\ end_of_p1 + 1024 * TypedGB(size_persistence) > device.total)
    => /\ Exited
       /\ exitCode = 1
       /\ exitReason = "infeasible"
       /\ plan = <<>>
       /\ \A i \in 1..Len(cmds) : cmds[i].op # "mkpart"

\* 20 GB from offset 3000 on the 16000 MiB device has been refused
C12_Witness ==
    /\ caller = "fix_partition_table"
    /\ device.total = 16000
    /\ end_of_p1 = 3000
    /\ size_persistence = <<"2", "0">>
    /\ Exited
    /\ exitReason = "infeasible"


\* a path has been built by get_partition_name
Resolved == target # <<>>

\* get_last_partition_number has returned or ended the run
Scanned == last_partition # 0 \/ exitReason = "no_partitions"

\* C13: get_last_partition_number returns the highest partition number
\* among the listed names of the drive, for names with the number appended
\* and for names with "p" before the number, the bare drive name not
\* counting ({sda1, sda2, sda3} gives 3, {nvme0n1p1, nvme0n1p2} gives 2);
\* with no partition listed it ends the run with an error instead.
C13_LastPartitionNumber ==
    /\ last_partition # 0 => (nodes # {} /\ last_partition = Max(nodes))
    /\ exitReason = "no_partitions" =>
         (nodes = {} /\ Exited /\ exitCode = 1 /\ last_partition = 0)
    /\ (Scanned /\ nodes = {}) => exitReason = "no_partitions"
    /\ (Scanned /\ DRIVE = sda /\ nodes = {1, 2, 3}) => last_partition = 3
    /\ (Scanned /\ DRIVE = nvme0n1 /\ nodes = {1, 2}) => last_partition = 2

\* the scan of nvme0n1p1, nvme0n1p2 has returned
C13_Witness ==
    /\ DRIVE = nvme0n1
    /\ nodes = {1, 2}
    /\ last_partition = 2

\* the drives whose path contains 'nvme' or 'mmcblk'
InfixDrives == {nvme0n1, mmcblk0}

\* C14: get_partition_name(drive, n) is drive + 'p' + n exactly for the
\* drives whose path contains 'nvme' or 'mmcblk' and drive + n for the
\* others, and distinct n give distinct paths.
C14_PartitionName ==
    /\ Resolved =>
         /\ SubSeq(target, 1, Len(DRIVE)) = DRIVE
         /\ LET suffix == SubSeq(target, Len(DRIVE) + 1, Len(target))
            IN  IF DRIVE \in InfixDrives
                THEN /\ Len(suffix) >= 2
                     /\ suffix[1] = "p"
                     /\ isdigit(Tail(suffix))
                     /\ int(Tail(suffix)) = part_index
                ELSE /\ isdigit(suffix)
                     /\ int(suffix) = part_index
    /\ DRIVE # <<>> =>
         \A m \in 0..(MaxPart + 10) : \A n \in 0..(MaxPart + 10) :
             m # n => get_partition_name(DRIVE, m) # get_partition_name(DRIVE, n)

\* index 2 of a drive with an infix marker has been resolved
C14_Witness ==
    /\ DRIVE = mmcblk0
    /\ part_index = 2
    /\ target = mmcblk0 \o <<"p", "2">>


ContainerFormatted ==
    \E i \in 1..Len(cmds) :
        /\ cmds[i].by = "setup_docs_partition"
        /\ cmds[i].op \in {"veracrypt --create AES SHA-256 --quick",
                           "veracrypt --create AES-Twofish-Serpent whirlpool"}
        /\ cmds[i].ok

DocumentsPlanned == \E i \in 1..Len(plan) : plan[i].role = "documents"

Completed == Exited /\ exitReason = "complete"

\* C15: a run started with --all that has completed has created a
\* documents partition and run the container provisioner on it, with or
\* without --tails.
C15_AllSetsUpDocuments ==
    (args.all /\ Completed) => (DocumentsPlanned /\ ContainerFormatted)

\* commands that change the partition table
TableOps == {"rm", "mklabel gpt", "mkpart"}

\* C16: every provisioner command comes after a successful partprobe
\* followed by a successful udevadm settle, with a partition-table change
\* before that partprobe and none after it.
C16_ReprobeBeforeProvisioners ==
    \A j \in 1..Len(cmds) :
        cmds[j].by \in Provisioners =>
            \E i \in 1..(j - 2) :
                /\ cmds[i].op = "partprobe"
                /\ cmds[i].ok
                /\ cmds[i + 1].op = "udevadm settle"
                /\ cmds[i + 1].ok
                /\ \E k \in 1..(i - 1) : cmds[k].op \in TableOps
                /\ \A k \in i..Len(cmds) : cmds[k].op \notin TableOps

\* a completed run whose provisioners ran
C16_Witness ==
    /\ Completed
    /\ \E j \in 1..Len(cmds) : cmds[j].by \in Provisioners

RoleOf(f) ==
    IF f = "setup_kali_partition" THEN "persistence"
    ELSE IF f = "setup_docs_partition" THEN "documents"
    ELSE "tools"

\* numbers of the partitions on the device made from the extent planned
\* for a role
CreatedFor(role) ==
    {n \in DOMAIN table :
        \E i \in 1..Len(plan) :
            plan[i].role = role /\ table[n] = Extent(plan[i].start, plan[i].end)}

PathCommands ==
    {i \in 1..Len(cmds) : cmds[i].by \in Provisioners /\ cmds[i].op \in PathOps}

\* C17: with the kernel's listing agreeing with the table on the device,
\* every path a provisioner works on is the path of the partition created
\* for its role in this run, and two different provisioners never work on
\* the same path.
C17_RolesAddressOwnPartition ==
    nodes = DOMAIN table =>
        /\ \A i \in PathCommands :
             \E n \in CreatedFor(RoleOf(cmds[i].by)) :
                 cmds[i].arg = get_partition_name(DRIVE, n)
        /\ \A i \in PathCommands : \A j \in PathCommands :
             cmds[i].by # cmds[j].by => cmds[i].arg # cmds[j].arg

\* C18: every documents extent handed to mkpart ends at or below
\* total - 1024, and the tools extent that follows it runs from there to
\* the end of the device, so it is at least 1024 MiB.
C18_MarginReserved ==
    \A i \in 1..Len(plan) :
        plan[i].role = "documents" =>
            /\ plan[i].end <= device.total - 1024
            /\ i < Len(plan) =>
                 /\ plan[i + 1] = [role |-> "tools", start |-> plan[i].end,
                                   end |-> device.total]
                 /\ plan[i + 1].end - plan[i + 1].start >= 1024

\* a documents extent of explicit size and its tools extent have been
\* handed to mkpart
C18_Witness ==
    /\ size_docs = <<"5">>
    /\ Len(plan) >= 2
    /\ plan[Len(plan)].role = "tools"
    /\ plan[Len(plan) - 1].role = "documents"

\* C19: after a successful image write, no mklabel is issued, partition 1
\* is not deleted, and no extent handed to mkpart starts below the end of
\* the image's partition 1.
C19_ImageSurvives ==
    \A i \in 1..Len(cmds) :
        (cmds[i].op = "dd if=ISO" /\ cmds[i].ok) =>
            \A j \in (i + 1)..Len(cmds) :
                /\ cmds[j].op # "mklabel gpt"
                /\ ~(cmds[j].op = "rm" /\ cmds[j].arg = <<1>>)
                /\ cmds[j].op = "mkpart" =>
                     \A img \in Images : cmds[j].arg[1] >= img[1].end

\* C20: in a completed run in which a documents partition was created, the
\* container provisioner has formatted it.
C20_DocumentsEncrypted ==
    (Completed /\ DocumentsPlanned) => ContainerFormatted


\* commands that act on the selected device or on what uses it: everything
\* but the package installation of check_dependencies
OnDevice(c) == c.by # "check_dependencies"

\* C21: a command that acts on the device (umount, swapoff, fuser, wipe,
\* image write, partition-table operation, provisioner) is in the log only
\* if the drive selection was answered with yes, and a run ended by a
\* declined selection has issued none.
C21_NothingBeforeConfirmation ==
    /\ \A i \in 1..Len(cmds) : OnDevice(cmds[i]) => confirm = "y"
    /\ exitReason = "declined_drive" =>
         /\ confirm = "n"
         /\ \A i \in 1..Len(cmds) : ~OnDevice(cmds[i])

\* the selection was confirmed and prepare_drive has released the device
C21_Witness ==
    /\ confirm = "y"
    /\ \E i \in 1..Len(cmds) :
         cmds[i].by = "prepare_drive" /\ cmds[i].op = "umount -l"

====
